---------------------------- MODULE Spec2Model ----------------------------
(***************************************************************************)
(* Orbital (src/src/App.jsx): the melody parser (parseMelodyText) and the  *)
(* tone scheduler (AudioEngine: initAudio, playTone, stopWord,             *)
(* playSequence and the timers they start).                                *)
(*                                                                         *)
(* Strings are sequences of one-character strings.  Times are integers in  *)
(* milliseconds, volumes in thousandths, the mixing scale in hundredths.   *)
(* A JavaScript value that may be null is a sequence of length 0 or 1.     *)
(***************************************************************************)
EXTENDS Integers, Sequences, FiniteSets, TLC

\* ------------------------------------------------------------------ bounds
\* longest input text given to the parser and to playSequence
MaxTextLen == 3
\* oscillators created in one behaviour of the scheduler (Spec)
MaxNodes == 2
\* notes scheduled before the playTone call that ToneSpec examines
MaxMixCount == 14
\* the longest input typed
MaxInputLen == 3
\* the most words in the word list
MaxWords == 3
\* the last clock value reached millisecond by millisecond
MaxTick == 3

\* ------------------------------------------------------- parseMelodyText
BASELINE_OCTAVE == 5

NL == "\n"

Digits == {"0", "1", "2", "3", "4", "5", "6", "7", "8", "9"}

\* /[0-9]/.test(char)
IsDigit(char) == char \in Digits

\* parseInt(char) of a one-digit string
parseInt(char) ==
  CASE char = "0" -> 0 [] char = "1" -> 1 [] char = "2" -> 2 [] char = "3" -> 3
    [] char = "4" -> 4 [] char = "5" -> 5 [] char = "6" -> 6 [] char = "7" -> 7
    [] char = "8" -> 8 [] char = "9" -> 9

PendingToken(char) == [type |-> "pending", char |-> char]
NewlineToken == [type |-> "newline"]
NoteToken(char, octave) == [type |-> "note", char |-> char, octave |-> octave]

\* a digit does not clear on a newline
ParseStepKeepsPendingOverNewline(text, i, st) ==
  LET char == text[i] IN
  IF IsDigit(char)
  THEN [tokens |-> IF i = Len(text) THEN Append(st.tokens, PendingToken(char))
                   ELSE st.tokens,
        pendingOctave |-> <<parseInt(char)>>]
  ELSE IF char = NL
  THEN [tokens |-> Append(st.tokens, NewlineToken),
        pendingOctave |-> st.pendingOctave]
  ELSE [tokens |-> Append(st.tokens,
                     NoteToken(char, IF st.pendingOctave # <<>>
                                     THEN st.pendingOctave[1]
                                     ELSE BASELINE_OCTAVE)),
        pendingOctave |-> <<>>]

\* a digit is dropped together with the character after it
ParseStepDigitSwallowsNote(text, i, st) ==
  LET char == text[i] IN
  IF IsDigit(char)
  THEN [tokens |-> IF i = Len(text) THEN Append(st.tokens, PendingToken(char))
                   ELSE st.tokens,
        pendingOctave |-> <<parseInt(char)>>]
  ELSE IF char = NL
  THEN [tokens |-> Append(st.tokens, NewlineToken),
        pendingOctave |-> <<>>]
  ELSE [tokens |-> IF st.pendingOctave # <<>> THEN st.tokens
                   ELSE Append(st.tokens, NoteToken(char, BASELINE_OCTAVE)),
        pendingOctave |-> <<>>]

\* every digit is rendered as a pending digit, not only the last character
ParseStepPendingForEveryDigit(text, i, st) ==
  LET char == text[i] IN
  IF IsDigit(char)
  THEN [tokens |-> Append(st.tokens, PendingToken(char)),
        pendingOctave |-> <<parseInt(char)>>]
  ELSE IF char = NL
  THEN [tokens |-> Append(st.tokens, NewlineToken),
        pendingOctave |-> <<>>]
  ELSE [tokens |-> Append(st.tokens,
                     NoteToken(char, IF st.pendingOctave # <<>>
                                     THEN st.pendingOctave[1]
                                     ELSE BASELINE_OCTAVE)),
        pendingOctave |-> <<>>]

\* one iteration of the for loop: st = [tokens, pendingOctave]
ParseStep(text, i, st) ==
  LET char == text[i] IN
  IF IsDigit(char)
  THEN [tokens |-> IF i = Len(text) THEN Append(st.tokens, PendingToken(char))
                   ELSE st.tokens,
        pendingOctave |-> <<parseInt(char)>>]
  ELSE IF char = NL
  THEN [tokens |-> Append(st.tokens, NewlineToken),
        pendingOctave |-> <<>>]
  ELSE [tokens |-> Append(st.tokens,
                     NoteToken(char, IF st.pendingOctave # <<>>
                                     THEN st.pendingOctave[1]
                                     ELSE BASELINE_OCTAVE)),
        pendingOctave |-> <<>>]

RECURSIVE ParseLoop(_, _, _)
ParseLoop(text, i, st) ==
  IF i > Len(text) THEN st.tokens
  ELSE ParseLoop(text, i + 1, ParseStep(text, i, st))

parseMelodyText(text) ==
  ParseLoop(text, 1, [tokens |-> <<>>, pendingOctave |-> <<>>])


\* ------------------------------------------------------------ AudioEngine
VARIABLES
  text,        \* the string handed to parseMelodyText
  tokens,      \* what parseMelodyText returned for it
  parsed,      \* whether parseMelodyText has returned
  audioCtx,    \* audioCtxRef.current: "null" or "running"
  masterGain,  \* masterGainRef.current: "null" or "set"
  bus,         \* the gain of that master node: value, ramp target, ramp time left
  activeNodes, \* activeNodesRef.current: a Map, key -> list of node ids
  nodes,       \* every { osc, gain } pair created so far, by node id
  timers,      \* the setTimeout callbacks that have not run yet
  faded,       \* nodes whose gain stopWord has ramped to 0
  stopped,     \* nodes whose oscillator a stopWord timer has stopped
  lastCall,    \* the most recent call: its name, arguments and playTone requests
  isMobile,    \* App's isMobile state: the window is at most 768 px wide
  input,       \* App's input state: the text being typed
  words,       \* App's words state, each word with the refs of its FloatingWord
  now,         \* Date.now(), in milliseconds
  isPlanetOrchestra, \* App's isPlanetOrchestra state
  appTimers,   \* the setTimeout callbacks of App that have not run yet
  removed      \* history: the ids of the words removed so far

parserVars == <<text, tokens, parsed>>
engineVars ==
  <<audioCtx, masterGain, bus, activeNodes, nodes, timers, faded, stopped>>
appVars == <<isMobile, input, words, now, isPlanetOrchestra, appTimers, removed>>
vars == <<text, tokens, parsed, audioCtx, masterGain, bus, activeNodes, nodes,
          timers, faded, stopped, lastCall, isMobile, input, words, now,
          isPlanetOrchestra, appTimers, removed>>

\* the engine's refs as one value
Engine ==
  [audioCtx |-> audioCtx, masterGain |-> masterGain, bus |-> bus,
   activeNodes |-> activeNodes, nodes |-> nodes, timers |-> timers,
   faded |-> faded]

LowerCase ==
  {"a", "b", "c", "d", "e", "f", "g", "h", "i", "j", "k", "l", "m",
   "n", "o", "p", "q", "r", "s", "t", "u", "v", "w", "x", "y", "z"}
UpperCase ==
  {"A", "B", "C", "D", "E", "F", "G", "H", "I", "J", "K", "L", "M",
   "N", "O", "P", "Q", "R", "S", "T", "U", "V", "W", "X", "Y", "Z"}

\* /^[a-zA-Z0-9]$/.test(char)
IsAlphaNumeric(char) == char \in LowerCase \cup UpperCase \cup Digits

Max(a, b) == IF a >= b THEN a ELSE b

\* no floor
MixingScaleNoFloor(currentActive) == 100 - currentActive * 5

\* Math.max(0.4, 1 - (currentActive * 0.05)), in hundredths
MixingScale(currentActive) == Max(40, 100 - currentActive * 5)

\* activeNodesRef.current.size
MapSize(map) == Cardinality(DOMAIN map)

\* list.filter(n => n !== nodeGroup)
RECURSIVE FilterOut(_, _)
FilterOut(list, n) ==
  IF list = <<>> THEN <<>>
  ELSE IF Head(list) = n THEN FilterOut(Tail(list), n)
  ELSE <<Head(list)>> \o FilterOut(Tail(list), n)

\* Map.set(key, value)
MapSet(map, key, value) ==
  [k \in DOMAIN map \cup {key} |-> IF k = key THEN value ELSE map[k]]

\* Map.delete(key)
MapDelete(map, key) == [k \in DOMAIN map \ {key} |-> map[k]]

\* if (wordId): the ids the program uses are non-empty strings and positive
\* numbers, so only null is falsy
Truthy(wordId) == wordId # <<>>

\* a context is "running" once created and "closed" from the call of close();
\* a closed context is not 'suspended', so it is never resumed
\* master.gain.value = .6, in thousandths
masterVolume == 600

\* a gain with no ramp scheduled
Steady(value) == [value |-> value, target |-> value, ramp |-> 0]

\* no master gain node
NoBus == Steady(0)

initAudio(E) ==
  IF E.audioCtx = "null"
  THEN [E EXCEPT !.audioCtx = "running", !.masterGain = "set",
                 !.bus = Steady(masterVolume)]
  ELSE E

\* fadeOut: cancel what is scheduled, hold the current value, ramp to 0 by
\* t + duration (milliseconds)
fadeOut(E, duration) ==
  IF E.audioCtx # "null" /\ E.masterGain # "null"
  THEN [E EXCEPT !.bus = IF duration = 0 THEN Steady(0)
                         ELSE [value |-> @.value, target |-> 0, ramp |-> duration]]
  ELSE E

\* linearRampToValueAtTime(1, t + 0.05), in milliseconds
resetRamp == 50

\* a ramp that ends later than the new one stays in force
resetVolumeKeepsLongerRamp(E) ==
  IF E.audioCtx # "null" /\ E.masterGain # "null" /\ E.bus.ramp <= resetRamp
  THEN [E EXCEPT !.bus = [value |-> 0, target |-> 1000, ramp |-> resetRamp]]
  ELSE E

\* resetVolume: cancel what is scheduled, set 0, ramp to 1 by t + 0.05
resetVolume(E) ==
  IF E.audioCtx # "null" /\ E.masterGain # "null"
  THEN [E EXCEPT !.bus = [value |-> 0, target |-> 1000, ramp |-> resetRamp]]
  ELSE E

\* the callback stopAll hands to close().then
CloseThen == [kind |-> "closeThen", node |-> 0, wordId |-> "", delay |-> 0]

\* close() closes the context at once and resolves later; on a context that
\* is closed already its promise rejects and the callback never runs
stopAll(E) ==
  IF E.audioCtx = "running"
  THEN [E EXCEPT !.audioCtx = "closed", !.timers = @ \cup {CloseThen}]
  ELSE E

\* audioCtxRef.current = null; masterGainRef.current = null
CloseCallback(E) ==
  [E EXCEPT !.audioCtx = "null", !.masterGain = "null", !.bus = NoBus]

\* const SCALE, in hundredths of a hertz
SCALE ==
  <<13081, 15556, 17461, 19600, 23308, 26163, 31113, 34923,
    39200, 46616, 52325, 62225, 69846, 78399, 93233, 104650>>

\* the letters in the order of their char codes
Alphabet ==
  <<"a", "b", "c", "d", "e", "f", "g", "h", "i", "j", "k", "l", "m",
    "n", "o", "p", "q", "r", "s", "t", "u", "v", "w", "x", "y", "z">>
UpperAlphabet ==
  <<"A", "B", "C", "D", "E", "F", "G", "H", "I", "J", "K", "L", "M",
    "N", "O", "P", "Q", "R", "S", "T", "U", "V", "W", "X", "Y", "Z">>

\* char.toLowerCase()
toLowerCase(char) ==
  IF char \in UpperCase
  THEN Alphabet[CHOOSE i \in 1..26 : UpperAlphabet[i] = char]
  ELSE char

\* char.charCodeAt(0), for the characters the inputs hold
charCodeAt(char) ==
  IF char \in LowerCase THEN 96 + (CHOOSE i \in 1..26 : Alphabet[i] = char)
  ELSE IF char \in UpperCase
  THEN 64 + (CHOOSE i \in 1..26 : UpperAlphabet[i] = char)
  ELSE IF IsDigit(char) THEN 48 + parseInt(char)
  ELSE CASE char = NL -> 10
         [] char = " " -> 32
         [] char = "!" -> 33
         [] char = "." -> 46
         [] char = "@" -> 64
         [] char = "|" -> 124
         [] char = "~" -> 126

RECURSIVE Pow2(_)
Pow2(n) == IF n = 0 THEN 1 ELSE 2 * Pow2(n - 1)

\* Math.max(0, alphaIndex): letters count from 0, any other character is its code
SafeIndex(char) ==
  LET code == charCodeAt(toLowerCase(char))
      alphaIndex == IF code >= 97 /\ code <= 122 THEN code - 97 ELSE code
  IN Max(0, alphaIndex)

\* every wrap of the table doubles
WrapMultiplierUnfolded(safeIndex) == Pow2(safeIndex \div Len(SCALE))

\* the factor of the scale wrap shift
WrapMultiplier(safeIndex) ==
  LET scaleWrapShift == safeIndex \div Len(SCALE) IN
    IF scaleWrapShift > 0 THEN Pow2(scaleWrapShift % 4) ELSE 1

\* const baseline = 5, the octave an override is measured from
baseline == 5

\* frequencies are held in 1/32 of a hundredth of a hertz, so that the octave
\* factors 2^(octave - 5) of the octaves 0..9 are whole
FreqUnit == 32

\* an uppercase letter sounds like its lowercase letter
FrequencyIgnoresCase(char, octaveOverride) ==
  LET safeIndex == SafeIndex(char)
      wrapped == SCALE[(safeIndex % Len(SCALE)) + 1] * FreqUnit
                   * WrapMultiplier(safeIndex)
  IN IF octaveOverride # <<>>
     THEN (wrapped * Pow2(octaveOverride[1])) \div Pow2(baseline)
     ELSE wrapped

\* the value playTone hands to osc.frequency
Frequency(char, octaveOverride) ==
  LET safeIndex == SafeIndex(char)
      noteIndex == safeIndex % Len(SCALE)
      wrapped == SCALE[noteIndex + 1] * FreqUnit * WrapMultiplier(safeIndex)
      cased == IF char # toLowerCase(char) THEN wrapped * 2 ELSE wrapped
  IN IF octaveOverride # <<>>
     THEN (cased * Pow2(octaveOverride[1])) \div Pow2(baseline)
     ELSE cased

\* const noteVolume = volume * 0.8, after volume *= 0.4 for a special
\* character, in hundred-thousandths; no statement reads it
NoteVolume(char, volume) ==
  IF IsAlphaNumeric(char) THEN volume * 80 ELSE volume * 32

\* the { osc, gain } pair playTone builds
NodeGroup(char, timeOffset, wordId, duration, volume, octaveOverride, currentActive, ctx) ==
  [char |-> char, ctx |-> ctx,
   safeIndex |-> SafeIndex(char),
   noteIndex |-> SafeIndex(char) % Len(SCALE),
   wrapMultiplier |-> WrapMultiplier(SafeIndex(char)),
   freq |-> Frequency(char, octaveOverride),
   noteVolume |-> NoteVolume(char, volume), timeOffset |-> timeOffset, wordId |-> wordId,
   duration |-> duration, octaveOverride |-> octaveOverride,
   volume |-> volume, currentActive |-> currentActive,
   mixingScale |-> MixingScale(currentActive),
   type |-> IF IsAlphaNumeric(char) THEN "sine" ELSE "triangle",
   finalVol |-> volume * MixingScale(currentActive)]

\* a note is tracked only under an id that already has a list
TrackOnlyExisting(E, n, timeOffset, wordId, duration) ==
  IF Truthy(wordId) /\ wordId[1] \in DOMAIN E.activeNodes
  THEN LET key == wordId[1] IN
       [E EXCEPT
          !.activeNodes = MapSet(@, key, Append(E.activeNodes[key], n)),
          !.timers = @ \cup {[kind |-> "expire", node |-> n, wordId |-> key,
                              delay |-> timeOffset + duration + 200]}]
  ELSE E

\* the timer's delay leaves the offset out
TrackDelayWithoutOffset(E, n, timeOffset, wordId, duration) ==
  IF Truthy(wordId)
  THEN LET key == wordId[1]
           map == IF key \in DOMAIN E.activeNodes THEN E.activeNodes
                  ELSE MapSet(E.activeNodes, key, <<>>)
       IN [E EXCEPT
             !.activeNodes = MapSet(map, key, Append(map[key], n)),
             !.timers = @ \cup {[kind |-> "expire", node |-> n, wordId |-> key,
                                 delay |-> duration + 200]}]
  ELSE E

\* the bookkeeping at the end of playTone
Track(E, n, timeOffset, wordId, duration) ==
  IF Truthy(wordId)
  THEN LET key == wordId[1]
           map == IF key \in DOMAIN E.activeNodes THEN E.activeNodes
                  ELSE MapSet(E.activeNodes, key, <<>>)
       IN [E EXCEPT
             !.activeNodes = MapSet(map, key, Append(map[key], n)),
             !.timers = @ \cup {[kind |-> "expire", node |-> n, wordId |-> key,
                                 delay |-> timeOffset + duration + 200]}]
  ELSE E

\* playTone after the test for a period
ScheduleTone(E, char, timeOffset, wordId, duration, volume, octaveOverride) ==
  LET E1 == IF E.audioCtx = "null" THEN initAudio(E) ELSE E IN
  IF E1.audioCtx = "null" \/ E1.masterGain = "null" THEN E1
  ELSE
    LET currentActive == MapSize(E1.activeNodes)
        n == Len(E1.nodes) + 1
        E2 == [E1 EXCEPT !.nodes = Append(@,
                 NodeGroup(char, timeOffset, wordId, duration, volume,
                           octaveOverride, currentActive, E1.audioCtx))]
    IN Track(E2, n, timeOffset, wordId, duration)

\* a period is scheduled like any other character
playToneRestSounds(E, char, timeOffset, wordId, duration, volume, octaveOverride) ==
  ScheduleTone(E, char, timeOffset, wordId, duration, volume, octaveOverride)

\* a space is silent like a period
playToneSpaceSilent(E, char, timeOffset, wordId, duration, volume, octaveOverride) ==
  IF char = "." \/ char = " " THEN E
  ELSE ScheduleTone(E, char, timeOffset, wordId, duration, volume, octaveOverride)

playTone(E, char, timeOffset, wordId, duration, volume, octaveOverride) ==
  IF char = "." THEN E
  ELSE ScheduleTone(E, char, timeOffset, wordId, duration, volume, octaveOverride)

\* the arguments of one playTone call
Request(char, timeOffset, wordId, duration, volume, octaveOverride) ==
  [char |-> char, timeOffset |-> timeOffset, wordId |-> wordId,
   duration |-> duration, volume |-> volume, octaveOverride |-> octaveOverride]

\* const noteSpacing = 0.15, in milliseconds
noteSpacing == 150
\* the duration playSequence passes to playTone, in milliseconds
sequenceDuration == 400

\* a newline does not reset timeIndex
SequenceStepNoReset(acc, token, wordId, volume) ==
  IF token.type = "note"
  THEN [E |-> playTone(acc.E, token.char, acc.timeIndex * noteSpacing, wordId,
                       sequenceDuration, volume, <<token.octave>>),
        timeIndex |-> acc.timeIndex + 1,
        requests |-> Append(acc.requests,
                      Request(token.char, acc.timeIndex * noteSpacing, wordId,
                              sequenceDuration, volume, <<token.octave>>))]
  ELSE acc

\* the body of tokens.forEach: acc = [E, timeIndex, requests]
SequenceStep(acc, token, wordId, volume) ==
  IF token.type = "note"
  THEN [E |-> playTone(acc.E, token.char, acc.timeIndex * noteSpacing, wordId,
                       sequenceDuration, volume, <<token.octave>>),
        timeIndex |-> acc.timeIndex + 1,
        requests |-> Append(acc.requests,
                      Request(token.char, acc.timeIndex * noteSpacing, wordId,
                              sequenceDuration, volume, <<token.octave>>))]
  ELSE IF token.type = "newline"
  THEN [acc EXCEPT !.timeIndex = 0]
  ELSE acc

RECURSIVE SequenceLoop(_, _, _, _)
SequenceLoop(acc, toks, wordId, volume) ==
  IF toks = <<>> THEN acc
  ELSE SequenceLoop(SequenceStep(acc, Head(toks), wordId, volume),
                    Tail(toks), wordId, volume)

\* returns [E, timeIndex, requests]
playSequence(E, word, wordId, volume) ==
  LET E1 == IF E.audioCtx = "null" THEN initAudio(E) ELSE E IN
  IF E1.audioCtx = "null"
  THEN [E |-> E1, timeIndex |-> 0, requests |-> <<>>]
  ELSE SequenceLoop([E |-> E1, timeIndex |-> 0, requests |-> <<>>],
                    parseMelodyText(word), wordId, volume)

\* linearRampToValueAtTime(0, t + 0.2): the end of the gain ramp, in
\* milliseconds after the call
stopRamp == 200

\* the hard stop comes with the end of the requested fade
stopDelayNoSlack(fadeDuration) == fadeDuration

\* const stopDelay = fadeDuration * 1000 + 200, in milliseconds
stopDelay(fadeDuration) == fadeDuration + 200

\* the body of nodes.forEach in stopWord, for the list still to visit; the
\* record of the delayed hard stop also holds when the node's gain ramp ends
RECURSIVE StopEach(_, _, _)
StopEach(E, list, fadeDuration) ==
  IF list = <<>> THEN E
  ELSE StopEach([E EXCEPT
                   !.faded = @ \cup {Head(list)},
                   !.timers = @ \cup {[kind |-> "hardstop", node |-> Head(list),
                                       wordId |-> "", ramp |-> stopRamp,
                                       delay |-> stopDelay(fadeDuration)]}],
                Tail(list), fadeDuration)

\* stopping one id clears the whole map
stopWordClearsMap(E, wordId, fadeDuration) ==
  IF wordId \in DOMAIN E.activeNodes /\ E.audioCtx # "null"
  THEN [E |-> [StopEach(E, E.activeNodes[wordId], fadeDuration)
                 EXCEPT !.activeNodes = <<>>],
        threw |-> FALSE]
  ELSE [E |-> E, threw |-> wordId \in DOMAIN E.activeNodes]

\* returns [E, threw]: reading currentTime of a null context is a TypeError
stopWord(E, wordId, fadeDuration) ==
  IF wordId \in DOMAIN E.activeNodes
  THEN IF E.audioCtx = "null"
       THEN [E |-> E, threw |-> TRUE]
       ELSE [E |-> [StopEach(E, E.activeNodes[wordId], fadeDuration)
                      EXCEPT !.activeNodes = MapDelete(@, wordId)],
             threw |-> FALSE]
  ELSE [E |-> E, threw |-> FALSE]

\* the callback empties the id's list
ExpireCallbackClearsList(E, t) ==
  IF t.wordId \in DOMAIN E.activeNodes
  THEN [E EXCEPT !.activeNodes = MapSet(@, t.wordId, <<>>)]
  ELSE E

\* the callback sets a list even when the id has none
ExpireCallbackRecreates(E, t) ==
  LET list == IF t.wordId \in DOMAIN E.activeNodes
              THEN E.activeNodes[t.wordId] ELSE <<>>
  IN [E EXCEPT !.activeNodes = MapSet(@, t.wordId, FilterOut(list, t.node))]

\* the callback of the setTimeout in playTone
ExpireCallback(E, t) ==
  IF t.wordId \in DOMAIN E.activeNodes
  THEN [E EXCEPT !.activeNodes =
          MapSet(@, t.wordId, FilterOut(E.activeNodes[t.wordId], t.node))]
  ELSE E


\* ---------------------------------------------------------------- inputs
\* characters of the input texts: a letter, a rest, a space, two digits, newline
TextAlphabet == {"a", ".", " ", "3", "6", NL}
Texts == UNION {[1..n -> TextAlphabet] : n \in 0..MaxTextLen}

\* the words the scheduler plays in Spec: one note, and a space before a note
SeqWords == {<<"a">>, <<" ", "a">>}

\* performance ids: 'typing' for live feedback, the id of a floating word
PerformanceIds == {"typing", "w1"}
\* stopWord's fade durations .1 and .3, in milliseconds
FadeDurations == {100, 300}
\* the duration of a typed note, in milliseconds
typingDuration == 150
\* the volume of a typed note, in thousandths
typingVolume == 200
\* the volume of a force-triggered word, in thousandths
wordVolume == 250

\* playTone calls as the key handlers issue them: a typed letter, space or
\* period, tracked under 'typing' or not tracked
ToneCalls ==
  {Request(char, 0, wordId, typingDuration, typingVolume, <<>>) :
     char \in {"a", " ", "."}, wordId \in {<<>>, <<"typing">>}}

SetEngine(E) ==
  /\ audioCtx' = E.audioCtx
  /\ masterGain' = E.masterGain
  /\ bus' = E.bus
  /\ activeNodes' = E.activeNodes
  /\ nodes' = E.nodes
  /\ timers' = E.timers
  /\ faded' = E.faded

\* number of oscillators playSequence(word) creates
RECURSIVE SoundingCount(_)
SoundingCount(toks) ==
  IF toks = <<>> THEN 0
  ELSE (IF Head(toks).type = "note" /\ Head(toks).char # "." THEN 1 ELSE 0)
       + SoundingCount(Tail(toks))

\* ---------------------------------------------------------------- actions
PlayToneCall(char, timeOffset, wordId, duration, volume, octaveOverride) ==
  /\ SetEngine(playTone(Engine, char, timeOffset, wordId, duration, volume,
                        octaveOverride))
  /\ lastCall' = [op |-> "playTone",
                  requests |-> <<Request(char, timeOffset, wordId, duration,
                                         volume, octaveOverride)>>]
  /\ UNCHANGED <<text, tokens, parsed, stopped, appVars>>

PlaySequenceCall(word, wordId, volume) ==
  /\ LET r == playSequence(Engine, word, wordId, volume) IN
       /\ SetEngine(r.E)
       /\ lastCall' = [op |-> "playSequence", word |-> word, wordId |-> wordId,
                       volume |-> volume, requests |-> r.requests]
  /\ UNCHANGED <<text, tokens, parsed, stopped, appVars>>

StopWordCall(wordId, fadeDuration) ==
  /\ LET r == stopWord(Engine, wordId, fadeDuration) IN
       /\ SetEngine(r.E)
       /\ lastCall' = [op |-> "stopWord", wordId |-> wordId, threw |-> r.threw,
                       requests |-> <<>>]
  /\ UNCHANGED <<text, tokens, parsed, stopped, appVars>>

\* a self-expiry timer of playTone fires
ExpireTimer(t) ==
  /\ t \in timers
  /\ t.kind = "expire"
  /\ SetEngine([ExpireCallback(Engine, t) EXCEPT !.timers = @ \ {t}])
  /\ lastCall' = [op |-> "expire", node |-> t.node, wordId |-> t.wordId,
                  requests |-> <<>>]
  /\ UNCHANGED <<text, tokens, parsed, stopped, appVars>>

\* a delayed hard stop of stopWord fires: osc.stop(), disconnect
HardStopTimer(t) ==
  /\ t \in timers
  /\ t.kind = "hardstop"
  /\ timers' = timers \ {t}
  /\ stopped' = stopped \cup {t.node}
  /\ lastCall' = [op |-> "hardstop", node |-> t.node, requests |-> <<>>]
  /\ UNCHANGED <<text, tokens, parsed, audioCtx, masterGain, bus, activeNodes, nodes,
                 faded, appVars>>

StopAllCall ==
  /\ SetEngine(stopAll(Engine))
  /\ lastCall' = [op |-> "stopAll", requests |-> <<>>]
  /\ UNCHANGED <<text, tokens, parsed, stopped, appVars>>

\* the promise of close() resolves
CloseResolved ==
  /\ CloseThen \in timers
  /\ SetEngine([CloseCallback(Engine) EXCEPT !.timers = @ \ {CloseThen}])
  /\ lastCall' = [op |-> "closeThen", requests |-> <<>>]
  /\ UNCHANGED <<text, tokens, parsed, stopped, appVars>>

InitAudioCall ==
  /\ SetEngine(initAudio(Engine))
  /\ lastCall' = [op |-> "initAudio", requests |-> <<>>]
  /\ UNCHANGED <<text, tokens, parsed, stopped, appVars>>

FadeOutCall(duration) ==
  /\ SetEngine(fadeOut(Engine, duration))
  /\ lastCall' = [op |-> "fadeOut", duration |-> duration, requests |-> <<>>]
  /\ UNCHANGED <<text, tokens, parsed, stopped, appVars>>

ResetVolumeCall ==
  /\ SetEngine(resetVolume(Engine))
  /\ lastCall' = [op |-> "resetVolume", requests |-> <<>>]
  /\ UNCHANGED <<text, tokens, parsed, stopped, appVars>>

\* the audio clock of a running context reaches the middle of the ramp
RampHalfWay ==
  /\ audioCtx = "running"
  /\ bus.ramp > 0
  /\ bus.ramp % 2 = 0
  /\ (bus.value + bus.target) % 2 = 0
  /\ bus' = [value |-> (bus.value + bus.target) \div 2, target |-> bus.target,
             ramp |-> bus.ramp \div 2]
  /\ UNCHANGED <<text, tokens, parsed, audioCtx, masterGain, activeNodes, nodes,
                 timers, faded, stopped, lastCall, appVars>>

\* the audio clock of a running context reaches the end of the ramp
RampEnds ==
  /\ audioCtx = "running"
  /\ bus.ramp > 0
  /\ bus' = Steady(bus.target)
  /\ UNCHANGED <<text, tokens, parsed, audioCtx, masterGain, activeNodes, nodes,
                 timers, faded, stopped, lastCall, appVars>>

\* ------------------------------------------------------------------- App
\* the words state holds, with each word, the refs of its FloatingWord:
\* isPlaying is isPlayingRef.current and ends lists the times at which the
\* end-of-performance timers of triggerPerformance that have not run yet are due
NewWord(wordText, id) ==
  [text |-> wordText, id |-> id, forceTrigger |-> 0, isPlaying |-> FALSE,
   ends |-> <<>>]

\* the keys of the bookkeeping map for the ids 1..16
WordIdPool ==
  <<"w1", "w2", "w3", "w4", "w5", "w6", "w7", "w8", "w9", "w10", "w11", "w12",
    "w13", "w14", "w15", "w16">>

\* the key of the bookkeeping map for a word id
WordKey(id) == WordIdPool[id]

\* playSequence(input, 0.2): the second argument is wordId
submitId == "0.2"
\* playSequence's default volume = 0.1, in thousandths
defaultVolume == 100

\* input.trim().length > 0
IsBlank(str) == \A i \in 1..Len(str) : str[i] \in {" ", NL}

\* prev.slice(0, -1)
DropLast(str) == IF str = <<>> THEN <<>> ELSE SubSeq(str, 1, Len(str) - 1)

\* input.slice(-1) as an octave: parseInt of a digit, null otherwise
OctaveBefore(str) ==
  IF str # <<>> /\ IsDigit(str[Len(str)]) THEN <<parseInt(str[Len(str)])>>
  ELSE <<>>

\* e.key.length === 1, for the keys of the inputs
PrintableKeys == {"a", ".", "3", "6", "|"}

\* a digit is appended even after a digit
KeyInputAppendsDigit(str, key) ==
  IF key = "Tab" THEN Append(str, NL)
  ELSE IF key = "Backspace" THEN DropLast(str)
  ELSE IF key \in PrintableKeys /\ key # "|" THEN Append(str, key)
  ELSE str

\* the input after a key other than Enter
KeyInput(str, key) ==
  IF key = "Tab" THEN Append(str, NL)
  ELSE IF key = "Backspace" THEN DropLast(str)
  ELSE IF key \in PrintableKeys /\ key # "|"
  THEN IF IsDigit(key) /\ str # <<>> /\ IsDigit(str[Len(str)])
       THEN Append(DropLast(str), key)
       ELSE Append(str, key)
  ELSE str

\* the submission of handleKeyDown (Enter) and handleMobileSubmit
Submit(E) ==
  IF ~IsBlank(input)
  THEN LET r == playSequence(E, input, <<submitId>>, defaultVolume) IN
       /\ SetEngine(r.E)
       /\ words' = Append(words, NewWord(input, now))
       /\ input' = <<>>
       /\ lastCall' = [op |-> "submit", text |-> input, requests |-> r.requests]
  ELSE /\ SetEngine(E)
       /\ UNCHANGED <<input, words>>
       /\ lastCall' = [op |-> "submit", text |-> input, requests |-> <<>>]

\* handleKeyDown: nothing on a mobile device
KeyDown(key) ==
  LET E == initAudio(Engine) IN
  /\ IF isMobile
     THEN /\ UNCHANGED <<engineVars, input, words>>
          /\ lastCall' = [op |-> "keyDown", key |-> key, requests |-> <<>>]
     ELSE IF key = "Enter" THEN Submit(E)
     ELSE /\ input' = KeyInput(input, key)
          /\ words' = words
          /\ IF key \in PrintableKeys /\ key # "|" /\ ~IsDigit(key)
             THEN /\ SetEngine(playTone(E, key, 0, <<"typing">>, typingDuration,
                                        typingVolume, OctaveBefore(input)))
                  /\ lastCall' =
                       [op |-> "keyDown", key |-> key,
                        requests |-> <<Request(key, 0, <<"typing">>, typingDuration,
                                               typingVolume, OctaveBefore(input))>>]
             ELSE /\ SetEngine(E)
                  /\ lastCall' = [op |-> "keyDown", key |-> key, requests |-> <<>>]
  /\ UNCHANGED <<text, tokens, parsed, stopped, isMobile, removed, now,
                 isPlanetOrchestra, appTimers>>

\* the characters typed on the mobile keyboard
MobileChars == {"a", "3", "|"}

\* e.target.value after one edit of the textarea: a character typed at the end
\* or the last character deleted
NewVals(str) == {Append(str, c) : c \in MobileChars} \cup {DropLast(str)}

\* the value MobileInput.handleChange passes to setInput
MobileValue(newVal) ==
  LET n == Len(newVal) IN
  IF n > Len(input) /\ n >= 2 /\ IsDigit(newVal[n]) /\ IsDigit(newVal[n - 1])
  THEN Append(SubSeq(newVal, 1, n - 2), newVal[n])
  ELSE newVal

\* newVal.slice(-2, -1) as an octave
OctaveSecondLast(newVal) ==
  IF Len(newVal) >= 2 THEN OctaveBefore(DropLast(newVal)) ELSE <<>>

\* MobileInput.handleChange
handleChange(newVal) ==
  LET n == Len(newVal)
      sounds == n > Len(input) /\ ~IsDigit(newVal[n])
  IN
  /\ isMobile
  /\ IF sounds
     THEN /\ SetEngine(playTone(Engine, newVal[n], 0, <<"typing">>, typingDuration,
                                typingVolume, OctaveSecondLast(newVal)))
          /\ lastCall' =
               [op |-> "handleChange", newVal |-> newVal,
                requests |-> <<Request(newVal[n], 0, <<"typing">>, typingDuration,
                                       typingVolume, OctaveSecondLast(newVal))>>]
     ELSE /\ SetEngine(Engine)
          /\ lastCall' = [op |-> "handleChange", newVal |-> newVal, requests |-> <<>>]
  /\ input' = MobileValue(newVal)
  /\ UNCHANGED <<text, tokens, parsed, stopped, isMobile, removed, words, now,
                 isPlanetOrchestra, appTimers>>

\* handleMobileSubmit
handleMobileSubmit ==
  /\ isMobile
  /\ Submit(Engine)
  /\ UNCHANGED <<text, tokens, parsed, stopped, isMobile, removed, now, isPlanetOrchestra,
                 appTimers>>

\* checkMobile on a resize of the window
checkMobile(narrow) ==
  /\ isMobile' = narrow
  /\ lastCall' = [op |-> "checkMobile", requests |-> <<>>]
  /\ UNCHANGED <<parserVars, engineVars, input, words, now, isPlanetOrchestra,
                 appTimers, removed>>

\* words.map(w => w.text).join('|')
RECURSIVE join(_)
join(texts) ==
  IF texts = <<>> THEN <<>>
  ELSE IF Len(texts) = 1 THEN texts[1]
  ELSE texts[1] \o <<"|">> \o join(Tail(texts))

\* decoded.split('|')
RECURSIVE split(_)
split(str) ==
  IF \A i \in 1..Len(str) : str[i] # "|" THEN <<str>>
  ELSE LET k == CHOOSE i \in 1..Len(str) :
                  str[i] = "|" /\ \A j \in 1..(i - 1) : str[j] # "|"
       IN <<SubSeq(str, 1, k - 1)>> \o split(SubSeq(str, k + 1, Len(str)))

\* the texts of the word list
TextsOf(list) == [i \in 1..Len(list) |-> list[i].text]

\* ---------------------------------------------------------- FloatingWord
\* Math.max(...lines.map(l => l.length)) of text.split('\n')
RECURSIVE LongestLine(_, _, _)
LongestLine(str, current, best) ==
  IF str = <<>> THEN Max(current, best)
  ELSE IF Head(str) = NL THEN LongestLine(Tail(str), 0, Max(current, best))
  ELSE LongestLine(Tail(str), current + 1, best)

longestLineLength(wordText) == LongestLine(wordText, 0, 0)

\* the 500 of approxDurationMS
performanceTail == 500
\* (longestLineLength * 150) + 500
approxDurationMS(wordText) ==
  longestLineLength(wordText) * noteSpacing + performanceTail

\* the volumes of a tap and of a random trigger, in thousandths
tapVolume == 200
randomVolume == 20

\* the callback of the setTimeout in triggerPerformance
EndCallback(word) == [word EXCEPT !.ends = Tail(@), !.isPlaying = FALSE]

\* triggerPerformance(volume) of the i-th word on the state acc = [E, words,
\* requests, started, clock]; the bound r holds playSequence's result, computed
\* once
triggerPerformance(acc, i, volume) ==
  LET word == acc.words[i] IN
  IF word.isPlaying THEN [acc EXCEPT !.started = FALSE]
  ELSE CHOOSE out \in
         {[E |-> r.E,
           words |-> [acc.words EXCEPT
                        ![i].isPlaying = TRUE,
                        ![i].ends = Append(@, acc.clock
                                                + approxDurationMS(word.text))],
           requests |-> acc.requests \o r.requests,
           started |-> TRUE,
           clock |-> acc.clock] :
            r \in {playSequence(acc.E, word.text, <<WordKey(word.id)>>, volume)}} :
         TRUE

\* the state a handler starts from, at the clock value of its event
At(clock) ==
  [E |-> Engine, words |-> words, requests |-> <<>>, started |-> FALSE,
   clock |-> clock]

Here == At(now)

\* a handler's result becomes the next state
Commit(acc) == SetEngine(acc.E) /\ words' = acc.words

\* the single tap on the i-th word
handleTap(i) ==
  LET acc == triggerPerformance(Here, i, tapVolume) IN
  /\ Commit(acc)
  /\ lastCall' = [op |-> "tap", id |-> words[i].id, started |-> acc.started,
                  requests |-> acc.requests]
  /\ UNCHANGED <<text, tokens, parsed, stopped, isMobile, removed, input, now,
                 isPlanetOrchestra, appTimers>>

\* the callback of the i-th word's setInterval
intervalCallback(i) ==
  LET acc == IF ~isPlanetOrchestra THEN triggerPerformance(Here, i, randomVolume)
             ELSE Here
  IN
  /\ Commit(acc)
  /\ lastCall' = [op |-> "random", id |-> words[i].id, started |-> acc.started,
                  requests |-> acc.requests]
  /\ UNCHANGED <<text, tokens, parsed, stopped, isMobile, removed, input, now,
                 isPlanetOrchestra, appTimers>>

\* the forceTrigger effect of the i-th word, after forceTrigger became now
forceEffect(acc, i) ==
  triggerPerformance([acc EXCEPT !.words[i].isPlaying = FALSE], i, wordVolume)

\* ------------------------------------------------- the planetary orchestra
\* the fade stopWord gets from handlePlanetClick, and from removeWord and
\* handlePlanetRightClick, in milliseconds
orchestraFade == 300
removeFade == 100
\* fadeOut(1.5), the delay of the orchestra's first timer, the tail of a word's
\* estimated duration and the rest before the flag is reset, in milliseconds
orchestraFadeOut == 1500
orchestraLead == 1600
orchestraTail == 100
orchestraRest == 1000

\* words.forEach(word => stopWord(word.id, fade)): a throw ends the loop
RECURSIVE StopWords(_, _, _)
StopWords(E, list, fade) ==
  IF list = <<>> THEN [E |-> E, threw |-> FALSE]
  ELSE LET r == stopWord(E, WordKey(Head(list).id), fade) IN
       IF r.threw THEN r ELSE StopWords(r.E, Tail(list), fade)

\* the comparator of sortedWords is negative
Before(a, b) ==
  IF Len(a.text) = Len(b.text) THEN a.id < b.id ELSE Len(a.text) < Len(b.text)

\* [...words].sort(comparator), a stable sort
RECURSIVE InsertSorted(_, _)
InsertSorted(sorted, w) ==
  IF sorted = <<>> THEN <<w>>
  ELSE IF Before(w, Head(sorted)) THEN <<w>> \o sorted
  ELSE <<Head(sorted)>> \o InsertSorted(Tail(sorted), w)

RECURSIVE sortedWords(_)
sortedWords(list) ==
  IF list = <<>> THEN <<>>
  ELSE InsertSorted(sortedWords(SubSeq(list, 1, Len(list) - 1)), list[Len(list)])

\* the estimated duration of a word in the orchestra
estimatedDuration(wordText) == longestLineLength(wordText) * noteSpacing + orchestraTail

\* the timers of sortedWords.forEach, from accumulatedDelay on
RECURSIVE ForceTimers(_, _, _)
ForceTimers(list, accumulatedDelay, clock) ==
  IF list = <<>> THEN <<>>
  ELSE <<[kind |-> "force", due |-> clock + accumulatedDelay, id |-> Head(list).id]>>
       \o ForceTimers(Tail(list),
                      accumulatedDelay + estimatedDuration(Head(list).text), clock)

\* accumulatedDelay after the loop
RECURSIVE TotalDelay(_)
TotalDelay(list) ==
  IF list = <<>> THEN 0 ELSE estimatedDuration(Head(list).text) + TotalDelay(Tail(list))

\* a sequence without its k-th element
RemoveAt(seq, k) == SubSeq(seq, 1, k - 1) \o SubSeq(seq, k + 1, Len(seq))

\* handlePlanetClick; a TypeError of stopWord ends the handler after the flag
\* has been set
handlePlanetClick ==
  IF isPlanetOrchestra
  THEN /\ lastCall' = [op |-> "planetClick", ignored |-> TRUE, threw |-> FALSE,
                       requests |-> <<>>]
       /\ UNCHANGED <<parserVars, engineVars, appVars>>
  ELSE LET r == StopWords(Engine, words, orchestraFade) IN
       /\ isPlanetOrchestra' = TRUE
       /\ IF r.threw
          THEN /\ SetEngine(r.E)
               /\ appTimers' = appTimers
          ELSE /\ SetEngine(fadeOut(r.E, orchestraFadeOut))
               /\ appTimers' = Append(appTimers,
                    [kind |-> "start", due |-> now + orchestraLead,
                     closure |-> words])
       /\ lastCall' = [op |-> "planetClick", ignored |-> FALSE, threw |-> r.threw,
                       requests |-> <<>>]
       /\ UNCHANGED <<text, tokens, parsed, stopped, isMobile, removed, input, words, now>>

\* the time the next timer of App or of a FloatingWord is due
Dues ==
  {appTimers[k].due : k \in 1..Len(appTimers)}
    \cup {words[i].ends[1] : i \in {j \in 1..Len(words) : words[j].ends # <<>>}}

IsNextDue(due) == due \in Dues /\ \A d \in Dues : due <= d

\* the callback of the timer handlePlanetClick sets
startCallback(k, clock) ==
  LET t == appTimers[k]
      sorted == sortedWords(t.closure)
  IN
  /\ SetEngine(initAudio(resetVolume(Engine)))
  /\ appTimers' = RemoveAt(appTimers, k) \o ForceTimers(sorted, 0, clock)
                    \o <<[kind |-> "finish",
                          due |-> clock + TotalDelay(sorted) + orchestraRest]>>
  /\ lastCall' = [op |-> "orchestraStart", requests |-> <<>>]
  /\ UNCHANGED <<text, tokens, parsed, stopped, isMobile, removed, input, words,
                 isPlanetOrchestra>>

\* the effects of the words whose forceTrigger has changed, in list order
RECURSIVE ForceEffects(_, _, _)
ForceEffects(acc, i, id) ==
  IF i > Len(acc.words) THEN acc
  ELSE IF acc.words[i].id = id
  THEN CHOOSE out \in {ForceEffects(next, i + 1, id) :
                         next \in {forceEffect(acc, i)}} : TRUE
  ELSE ForceEffects(acc, i + 1, id)

\* the callback of a word's trigger timer, with the effects of the render
forceCallback(k, clock) ==
  LET t == appTimers[k]
      marked == [i \in 1..Len(words) |->
                   IF words[i].id = t.id
                   THEN [words[i] EXCEPT !.forceTrigger = clock] ELSE words[i]]
  IN
  \E acc \in {ForceEffects([At(clock) EXCEPT !.words = marked], 1, t.id)} :
    /\ Commit(acc)
    /\ appTimers' = RemoveAt(appTimers, k)
    /\ lastCall' = [op |-> "force", id |-> t.id, started |-> acc.started,
                    requests |-> acc.requests]
    /\ UNCHANGED <<text, tokens, parsed, stopped, isMobile, removed, input,
                   isPlanetOrchestra>>

\* the callback of the last timer
finishCallback(k) ==
  /\ isPlanetOrchestra' = FALSE
  /\ appTimers' = RemoveAt(appTimers, k)
  /\ lastCall' = [op |-> "orchestraFinish", requests |-> <<>>]
  /\ UNCHANGED <<parserVars, engineVars, isMobile, removed, input, words>>

\* a timer of App that is due next runs, the clock being at its time
AppTimer(k) ==
  /\ IsNextDue(appTimers[k].due)
  /\ now' = Max(now, appTimers[k].due)
  /\ CASE appTimers[k].kind = "start" -> startCallback(k, Max(now, appTimers[k].due))
       [] appTimers[k].kind = "force" -> forceCallback(k, Max(now, appTimers[k].due))
       [] appTimers[k].kind = "finish" -> finishCallback(k)

\* the end-of-performance timer of the i-th word runs
EndTimer(i) ==
  /\ words[i].ends # <<>>
  /\ IsNextDue(words[i].ends[1])
  /\ now' = Max(now, words[i].ends[1])
  /\ words' = [words EXCEPT ![i] = EndCallback(@)]
  /\ lastCall' = [op |-> "performanceEnd", id |-> words[i].id, requests |-> <<>>]
  /\ UNCHANGED <<parserVars, engineVars, isMobile, removed, input, isPlanetOrchestra,
                 appTimers>>

\* ------------------------------------------------------ imports, removals
\* the i-th word of an import: a FloatingWord whose key (the id) is already on
\* screen stays mounted and keeps its refs
Imported(wordText, id) ==
  IF \E j \in 1..Len(words) : words[j].id = id
  THEN LET j == CHOOSE j \in 1..Len(words) :
                  words[j].id = id /\ \A h \in 1..(j - 1) : words[h].id # id
       IN [NewWord(wordText, id) EXCEPT !.isPlaying = words[j].isPlaying,
                                        !.ends = words[j].ends]
  ELSE NewWord(wordText, id)

\* textArray.map((text, i) => ({ text, id: Date.now() + i, ... }))
newWords(decoded) ==
  LET textArray == split(decoded) IN
  [i \in 1..Len(textArray) |-> Imported(textArray[i], now + (i - 1))]

\* loadWorld, and the hash effect on mount, for the decompressed code: null
\* and '' (here both <<>>) load nothing
loadWorld(decoded) ==
  /\ words' = IF decoded # <<>> THEN newWords(decoded) ELSE words
  /\ lastCall' = [op |-> "loadWorld", decoded |-> decoded, requests |-> <<>>]
  /\ UNCHANGED <<parserVars, engineVars, isMobile, removed, input, now, isPlanetOrchestra,
                 appTimers>>

\* loadFromVoyager
loadFromVoyager(decoded) ==
  /\ SetEngine(stopAll(Engine))
  /\ words' = IF decoded # <<>> THEN newWords(decoded) ELSE words
  /\ lastCall' = [op |-> "loadFromVoyager", decoded |-> decoded,
                  requests |-> <<>>]
  /\ UNCHANGED <<text, tokens, parsed, stopped, isMobile, removed, input, now,
                 isPlanetOrchestra, appTimers>>

\* playPop: its oscillator is tracked nowhere and stops itself
playPop(E) == IF E.audioCtx = "null" THEN initAudio(E) ELSE E

\* prev.filter(w => w.id !== id)
RECURSIVE FilterId(_, _)
FilterId(list, id) ==
  IF list = <<>> THEN <<>>
  ELSE IF Head(list).id = id THEN FilterId(Tail(list), id)
  ELSE <<Head(list)>> \o FilterId(Tail(list), id)

\* removeWord
removeWord(id) ==
  LET r == stopWord(playPop(Engine), WordKey(id), removeFade) IN
  /\ SetEngine(r.E)
  /\ words' = IF r.threw THEN words ELSE FilterId(words, id)
  /\ removed' = IF r.threw THEN removed ELSE removed \cup {id}
  /\ lastCall' = [op |-> "removeWord", id |-> id, threw |-> r.threw,
                  requests |-> <<>>]
  /\ UNCHANGED <<text, tokens, parsed, stopped, isMobile, input, now,
                 isPlanetOrchestra, appTimers>>

\* handlePlanetRightClick
handlePlanetRightClick ==
  LET r == StopWords(playPop(Engine), words, removeFade) IN
  /\ SetEngine(r.E)
  /\ words' = IF r.threw THEN words ELSE <<>>
  /\ removed' = IF r.threw THEN removed
                ELSE removed \cup {words[i].id : i \in 1..Len(words)}
  /\ lastCall' = [op |-> "planetRightClick", threw |-> r.threw,
                  ids |-> {words[i].id : i \in 1..Len(words)}, requests |-> <<>>]
  /\ UNCHANGED <<text, tokens, parsed, stopped, isMobile, input, now,
                 isPlanetOrchestra, appTimers>>

\* a millisecond passes with no timer due
Tick ==
  /\ now < MaxTick
  /\ \A d \in Dues : now < d
  /\ now' = now + 1
  /\ lastCall' = [op |-> "tick", requests |-> <<>>]
  /\ UNCHANGED <<parserVars, engineVars, isMobile, removed, input, words,
                 isPlanetOrchestra, appTimers>>

ParseCall ==
  /\ ~parsed
  /\ tokens' = parseMelodyText(text)
  /\ parsed' = TRUE
  /\ UNCHANGED <<text, engineVars, lastCall, appVars>>

NewText ==
  /\ parsed
  /\ text' \in Texts
  /\ tokens' = <<>>
  /\ parsed' = FALSE
  /\ UNCHANGED <<engineVars, lastCall, appVars>>

\* ----------------------------------------------------------- specifications
EngineInit ==
  /\ audioCtx = "null"
  /\ masterGain = "null"
  /\ bus = NoBus
  /\ activeNodes = <<>>
  /\ nodes = <<>>
  /\ timers = {}
  /\ faded = {}
  /\ stopped = {}
  /\ lastCall = [op |-> "none", requests |-> <<>>]

ParserIdle ==
  /\ text = <<>>
  /\ tokens = <<>>
  /\ parsed = FALSE

\* App's useState initial values; the clock starts at 1
AppInit ==
  /\ isMobile = FALSE
  /\ removed = {}
  /\ input = <<>>
  /\ words = <<>>
  /\ now = 1
  /\ isPlanetOrchestra = FALSE
  /\ appTimers = <<>>

Init == ParserIdle /\ EngineInit /\ AppInit

TypeTone ==
  \E c \in ToneCalls :
    /\ c.char = "." \/ Len(nodes) < MaxNodes
    /\ PlayToneCall(c.char, c.timeOffset, c.wordId, c.duration, c.volume,
                    c.octaveOverride)

PlayWord ==
  \E word \in SeqWords, wordId \in {<<>>, <<"w1">>} :
    /\ Len(nodes) + SoundingCount(parseMelodyText(word)) <= MaxNodes
    /\ PlaySequenceCall(word, wordId, wordVolume)

StopPerformance ==
  \E wordId \in PerformanceIds, fadeDuration \in FadeDurations :
    StopWordCall(wordId, fadeDuration)

FireExpire == \E t \in timers : ExpireTimer(t)

FireHardStop == \E t \in timers : HardStopTimer(t)

Next == TypeTone \/ PlayWord \/ StopPerformance \/ FireExpire \/ FireHardStop

Spec == Init /\ [][Next]_vars

\* the parser applied to every text up to MaxTextLen
ParseInit ==
  text \in Texts /\ tokens = <<>> /\ parsed = FALSE /\ EngineInit /\ AppInit

ParseNext == ParseCall \/ NewText

ParseSpec == ParseInit /\ [][ParseNext]_vars


\* ---------------------------------------------- playSequence on every text
\* one playSequence call on a fresh engine, then the notes' timers
PlayText ==
  \E word \in Texts, wordId \in {<<>>, <<"w1">>} :
    /\ lastCall.op = "none"
    /\ PlaySequenceCall(word, wordId, wordVolume)

SeqNext == PlayText \/ FireExpire

SeqSpec == Init /\ [][SeqNext]_vars

\* ------------------------------------------------ teardown of the context
\* loading another system tears the audio down
LoadSystem == StopAllCall

\* a typed letter, tracked under 'typing' or not tracked
TypeLetter ==
  \E wordId \in {<<>>, <<"typing">>} :
    /\ Len(nodes) < MaxNodes
    /\ PlayToneCall("a", 0, wordId, typingDuration, typingVolume, <<>>)

\* a floating word of one note performs
PerformWord ==
  /\ Len(nodes) < MaxNodes
  /\ PlaySequenceCall(<<"a">>, <<"w1">>, wordVolume)

\* a word is removed
RemoveWord == \E wordId \in PerformanceIds : StopWordCall(wordId, 100)

TeardownNext ==
  \/ TypeLetter
  \/ PerformWord
  \/ RemoveWord
  \/ FireExpire
  \/ FireHardStop
  \/ LoadSystem
  \/ CloseResolved

TeardownSpec == Init /\ [][TeardownNext]_vars

\* ------------------------------------------------- stopWord on every fade
\* fade durations in milliseconds: the .1 and .3 the handlers pass, and 0 and
\* 1.5 s as a shortest and a long fade
StopFades == {0, 100, 300, 1500}

StopFade ==
  \E wordId \in PerformanceIds, fadeDuration \in StopFades :
    StopWordCall(wordId, fadeDuration)

StopNext == TypeLetter \/ PerformWord \/ StopFade \/ FireExpire \/ FireHardStop

StopSpec == Init /\ [][StopNext]_vars

\* ---------------------------------------------------- the shared bus gain
\* fadeOut's durations in milliseconds: the 1.5 s of the planet click, and 3 s
FadeOutDurations == {1500, 3000}

BusFade == \E duration \in FadeOutDurations : FadeOutCall(duration)

BusNext ==
  \/ InitAudioCall
  \/ BusFade
  \/ ResetVolumeCall
  \/ RampHalfWay
  \/ RampEnds
  \/ LoadSystem
  \/ CloseResolved

\* the clock of a running context keeps running
BusSpec == Init /\ [][BusNext]_vars /\ WF_vars(RampEnds)

\* ------------------------------------------------- the desktop keyboard
\* the keys pressed: the printable ones, the three handled by name, and one
\* that is neither
Keys == {"a", "3", "6", "|", "Tab", "Enter", "Backspace", "Shift"}

\* how many oscillators a key press creates
KeyNodes(key) ==
  IF key = "Enter"
  THEN IF IsBlank(input) THEN 0 ELSE SoundingCount(parseMelodyText(input))
  ELSE IF key \in PrintableKeys \ {"|", "."} /\ ~IsDigit(key) THEN 1 ELSE 0

PressKey ==
  \E key \in Keys :
    /\ Len(KeyInput(input, key)) <= MaxInputLen
    /\ key = "Enter" => words = <<>>
    /\ Len(nodes) + KeyNodes(key) <= MaxNodes
    /\ KeyDown(key)

KeyNext == PressKey

KeySpec == Init /\ [][KeyNext]_vars

\* ------------------------------------------------------ the mobile input
Resize == \E narrow \in BOOLEAN : narrow # isMobile /\ checkMobile(narrow)

\* how many oscillators an edit of the textarea creates
ChangeNodes(newVal) ==
  IF Len(newVal) > Len(input) /\ ~IsDigit(newVal[Len(newVal)]) THEN 1 ELSE 0

ChangeInput ==
  \E newVal \in NewVals(input) :
    /\ Len(newVal) <= MaxInputLen
    /\ Len(nodes) + ChangeNodes(newVal) <= MaxNodes
    /\ handleChange(newVal)

MobileSend ==
  /\ words = <<>>
  /\ Len(nodes) + KeyNodes("Enter") <= MaxNodes
  /\ handleMobileSubmit

MobileNext == Resize \/ ChangeInput \/ MobileSend

MobileSpec == Init /\ [][MobileNext]_vars

\* ------------------------------------------------- submissions and imports
\* the decompressed codes: one that does not decode, one word, two words
Payloads == {<<>>, <<"a">>, <<".", "|", "a">>, <<".", ".", "|", "a">>}

\* the number of words of a payload
PayloadWords(decoded) == IF decoded = <<>> THEN 0 ELSE Len(split(decoded))

\* ids are keys of the bookkeeping map while the clock is in WordIdPool
IdsFit(n) == now + n <= Len(WordIdPool)

\* two events of the user are at least a millisecond apart
Apart == lastCall.op \in {"none", "tick"}

LoadWorld ==
  \E decoded \in Payloads :
    /\ Apart
    /\ IdsFit(PayloadWords(decoded))
    /\ loadWorld(decoded)

\* a letter or a period is typed, or the input is submitted
TypeAndEnter ==
  \E key \in {"a", ".", "Enter"} :
    /\ Apart
    /\ Len(KeyInput(input, key)) <= MaxInputLen
    /\ key = "Enter" => Len(words) < MaxWords /\ IdsFit(1)
    /\ Len(nodes) + KeyNodes(key) <= MaxNodes
    /\ KeyDown(key)

ImportNext == Tick \/ LoadWorld \/ TypeAndEnter

ImportSpec == Init /\ [][ImportNext]_vars

\* ------------------------------------------------- words, taps, orchestra
\* the last clock value at which the user still acts
MaxClock == 2500

\* the oscillators a performance of the text creates
Cost(wordText) == SoundingCount(parseMelodyText(wordText))

RECURSIVE SumCost(_, _)
SumCost(list, ids) ==
  IF list = <<>> THEN 0
  ELSE (IF Head(list).id \in ids THEN Cost(Head(list).text) ELSE 0)
         + SumCost(Tail(list), ids)

\* the oscillators the pending timers of the orchestra will create
RECURSIVE Reserved(_)
Reserved(pending) ==
  IF pending = <<>> THEN 0
  ELSE LET t == Head(pending) IN
       (CASE t.kind = "force" -> SumCost(words, {t.id})
          [] t.kind = "start" ->
               Reserved([i \in 1..Len(t.closure) |->
                           [kind |-> "force", id |-> t.closure[i].id]])
          [] t.kind = "finish" -> 0)
         + Reserved(Tail(pending))

\* what the user does leaves room for the notes of the pending timers
Budget == Len(nodes) + Reserved(appTimers) <= MaxNodes

Acting == now <= MaxClock

\* the code of the URL's hash is loaded on mount
OpenWorld ==
  \E decoded \in Payloads :
    /\ lastCall.op = "none"
    /\ IdsFit(PayloadWords(decoded))
    /\ loadWorld(decoded)
    /\ Budget'

\* the codes of the systems of the Voyager menu: one that does not decode, and
\* one word
Systems == {<<>>, <<"a">>}

\* a system of the Voyager menu is loaded
OpenVoyager ==
  \E decoded \in Systems :
    /\ IdsFit(PayloadWords(decoded))
    /\ loadFromVoyager(decoded)
    /\ Budget'

TapWord == \E i \in 1..Len(words) : Acting /\ handleTap(i) /\ Budget'

RandomTrigger == \E i \in 1..Len(words) : Acting /\ intervalCallback(i) /\ Budget'

ClickPlanet == Acting /\ handlePlanetClick /\ Budget'

RightClickWord == \E i \in 1..Len(words) : removeWord(words[i].id)

RightClickPlanet == handlePlanetRightClick

RunAppTimer == \E k \in 1..Len(appTimers) : AppTimer(k)

RunEndTimer == \E i \in 1..Len(words) : EndTimer(i)

WordNext ==
  \/ OpenWorld
  \/ TapWord
  \/ RandomTrigger
  \/ ClickPlanet
  \/ RunAppTimer
  \/ RunEndTimer

WordSpec == Init /\ [][WordNext]_vars

\* the browser runs every timer that is due
WordLive == WordSpec /\ WF_vars(RunAppTimer) /\ WF_vars(RunEndTimer)

OrchestraNext ==
  \/ OpenVoyager
  \/ CloseResolved
  \/ TapWord
  \/ RandomTrigger
  \/ ClickPlanet
  \/ RunAppTimer
  \/ RunEndTimer
  \/ FireExpire

OrchestraSpec == Init /\ [][OrchestraNext]_vars

\* the browser runs every timer that is due
OrchestraLive == OrchestraSpec /\ WF_vars(RunAppTimer) /\ WF_vars(RunEndTimer)

RemovalNext ==
  \/ OpenWorld
  \/ TapWord
  \/ RandomTrigger
  \/ ClickPlanet
  \/ RightClickWord
  \/ RightClickPlanet
  \/ RunAppTimer
  \/ RunEndTimer
  \/ FireExpire
  \/ FireHardStop

RemovalSpec == Init /\ [][RemovalNext]_vars

\* submissions and imports, and an orchestra on the words they leave
SessionNext ==
  \/ Tick
  \/ LoadWorld
  \/ TypeAndEnter
  \/ ClickPlanet
  \/ RightClickWord
  \/ RunAppTimer
  \/ RunEndTimer

SessionSpec == Init /\ [][SessionNext]_vars

\* the world codes typed into the import box: one word, three words
Worlds == {<<"a">>, <<"a", "|", ".", "|", "a">>}

\* a world code is imported, a millisecond or more after the last event
ImportWorld ==
  \E decoded \in Worlds :
    /\ Apart
    /\ IdsFit(PayloadWords(decoded))
    /\ loadWorld(decoded)
    /\ Budget'

\* a word is removed, a millisecond or more after the last event
RemoveApart == Apart /\ RightClickWord

\* the words are cleared, a millisecond or more after the last event
ClearApart == Apart /\ RightClickPlanet

\* the planet is clicked, a millisecond or more after the last event
ClickApart == Apart /\ ClickPlanet

\* imports and removals a millisecond apart, with the timers of the words
ReuseNext ==
  \/ Tick
  \/ ImportWorld
  \/ RemoveApart
  \/ ClearApart
  \/ ClickApart
  \/ RandomTrigger
  \/ RunAppTimer
  \/ RunEndTimer
  \/ FireExpire
  \/ FireHardStop

ReuseSpec == Init /\ [][ReuseNext]_vars

\* ------------------------------------------- playTone on every bookkeeping
\* the k-th note scheduled before the examined call: a typed note under an id
\* of its own, the k-th of WordIdPool
PrepRequest(k) ==
  Request("a", 0, <<WordIdPool[k]>>, typingDuration, typingVolume, <<>>)

\* nothing but the notes of PrepRequest has been scheduled so far
Prepared ==
  /\ \A i \in 1..Len(nodes) : nodes[i].wordId = <<WordIdPool[i]>>
  /\ \/ lastCall.op \in {"none", "expire"}
     \/ /\ lastCall.op = "playTone"
        /\ Len(nodes) >= 1
        /\ lastCall.requests = <<PrepRequest(Len(nodes))>>

PrepTone ==
  LET c == PrepRequest(Len(nodes) + 1) IN
    /\ Prepared
    /\ Len(nodes) < MaxMixCount
    /\ PlayToneCall(c.char, c.timeOffset, c.wordId, c.duration, c.volume,
                    c.octaveOverride)

\* the notes have one delay, so their timers fire in the order they were set
PrepExpire ==
  /\ Prepared
  /\ \E t \in timers :
       /\ \A u \in timers : t.node <= u.node
       /\ ExpireTimer(t)

\* characters of the examined call: letters, a digit, a period, specials
ProbeChars == {"a", "A", "z", "Z", "3", ".", " ", "!", "@", "~"}
\* volumes, in thousandths: the 0.02 and 0.25 of a word, the 0.2 of typing
Volumes == {20, 200, 250}

\* the examined playTone call
ProbeTone ==
  /\ Prepared
  /\ \E char \in ProbeChars, timeOffset \in {0, noteSpacing},
        wordId \in {<<>>, <<"typing">>, <<"w1">>},
        duration \in {typingDuration, sequenceDuration}, volume \in Volumes,
        octaveOverride \in {<<>>, <<4>>, <<5>>, <<6>>} :
       PlayToneCall(char, timeOffset, wordId, duration, volume, octaveOverride)

ToneNext == PrepTone \/ PrepExpire \/ ProbeTone

ToneSpec == Init /\ [][ToneNext]_vars


\* ============================================================= properties
\* a character that becomes a Note token: neither a digit nor a newline
IsNoteChar(char) == ~IsDigit(char) /\ char # NL

\* how many note characters txt[1..i] holds
NoteIndex(txt, i) == Cardinality({j \in 1..i : IsNoteChar(txt[j])})

IsNote(token) == token.type = "note"
IsPending(token) == token.type = "pending"
NotPending(token) == token.type # "pending"
NotADigit(char) == ~IsDigit(char)

\* C1: each character that is neither a digit nor a newline yields one Note
\* token, whose octave is the value of the digit immediately before it when
\* the preceding character is a digit and 5 otherwise (so of consecutive
\* digits the last one applies, a digit applies to one note at most, and a
\* digit before a newline is discarded).
C1_NoteOctaves ==
  parsed =>
    LET notes == SelectSeq(tokens, IsNote) IN
      /\ Len(notes) = NoteIndex(text, Len(text))
      /\ \A i \in 1..Len(text) :
           IsNoteChar(text[i]) =>
             LET note == notes[NoteIndex(text, i)] IN
               /\ note.char = text[i]
               /\ note.octave = IF i > 1 /\ IsDigit(text[i - 1])
                                THEN parseInt(text[i - 1]) ELSE 5

\* "3\na": the digit is discarded by the newline, the note gets octave 5
C1_Witness ==
  /\ parsed
  /\ text = <<"3", NL, "a">>
  /\ tokens = <<NewlineToken, NoteToken("a", 5)>>

\* C2: parseMelodyText consumes every character exactly once: the tokens
\* other than a pending digit are, in input order, the characters of the text
\* that are not digits (a LineBreak for a newline, a Note for any other), no
\* digit yields a token except as one trailing PendingDigit, and the empty
\* string yields the empty sequence.
C2_EveryCharacterOnce ==
  parsed =>
    LET emitted == SelectSeq(tokens, NotPending)
        kept == SelectSeq(text, NotADigit)
        pending == SelectSeq(tokens, IsPending)
    IN /\ Len(emitted) = Len(kept)
       /\ \A i \in 1..Len(kept) :
            IF kept[i] = NL THEN emitted[i] = NewlineToken
            ELSE IsNote(emitted[i]) /\ emitted[i].char = kept[i]
       /\ Len(pending) <= 1
       /\ Len(tokens) = Len(kept) + Len(pending)
       /\ (text = <<>> => tokens = <<>>)

\* "3a6": the 3 is absorbed into the note, the 6 is the trailing pending digit
C2_Witness ==
  /\ parsed
  /\ text = <<"3", "a", "6">>
  /\ tokens = <<NoteToken("a", 3), PendingToken("6")>>

\* C3: a PendingDigit token is emitted if and only if the last character of
\* the input is a digit; it is then the last token, the only one, and carries
\* that last digit.
C3_PendingDigit ==
  parsed =>
    /\ (\E i \in 1..Len(tokens) : IsPending(tokens[i]))
         <=> (text # <<>> /\ IsDigit(text[Len(text)]))
    /\ \A i \in 1..Len(tokens) :
         IsPending(tokens[i]) =>
           /\ i = Len(tokens)
           /\ tokens[i].char = text[Len(text)]

\* "a36": the pending digit is 6 and the 3 produces no token
C3_Witness ==
  /\ parsed
  /\ text = <<"a", "3", "6">>
  /\ tokens = <<NoteToken("a", 5), PendingToken("6")>>


\* how many Note tokens of the line of txt[i] come before txt[i]
StepInLine(txt, i) ==
  Cardinality({q \in 1..(i - 1) :
                 IsNoteChar(txt[q]) /\ \A r \in q..i : txt[r] # NL})

\* C4: within one playSequence call the notes are requested in input order,
\* the k-th Note token of a line (k from 0, rests and spaces counted) at offset
\* k * 0.15 s; a LineBreak resets the counter, so the first Note after it is at
\* offset 0, and a PendingDigit neither sounds nor advances the counter.
C4_SequenceOffsets ==
  lastCall.op = "playSequence" =>
    LET word == lastCall.word
        requests == lastCall.requests
    IN /\ Len(requests) = NoteIndex(word, Len(word))
       /\ \A i \in 1..Len(word) :
            IsNoteChar(word[i]) =>
              LET request == requests[NoteIndex(word, i)] IN
                /\ request.char = word[i]
                /\ request.timeOffset = StepInLine(word, i) * 150

\* ".\na": the rest is requested at 0 and the note after the newline at 0 again
C4_Witness ==
  /\ lastCall.op = "playSequence"
  /\ lastCall.word = <<".", NL, "a">>
  /\ Len(lastCall.requests) = 2
  /\ lastCall.requests[1].char = "." /\ lastCall.requests[1].timeOffset = 0
  /\ lastCall.requests[2].char = "a" /\ lastCall.requests[2].timeOffset = 0
  /\ Len(nodes) = 1

\* C5: playTone called with '.' changes nothing, whatever its other
\* arguments: no oscillator, no initialisation of the audio backend, no
\* bookkeeping entry, no timer.
C5_RestChangesNothing ==
  [][(lastCall'.op = "playTone" /\ lastCall'.requests[1].char = ".")
       => UNCHANGED engineVars]_vars

\* playTone('.', 0.15, 'typing', ..., 6) on an engine never initialised
C5_Witness ==
  /\ lastCall.op = "playTone"
  /\ lastCall.requests[1].char = "."
  /\ lastCall.requests[1].timeOffset = 150
  /\ lastCall.requests[1].wordId = <<"typing">>
  /\ lastCall.requests[1].octaveOverride = <<6>>
  /\ audioCtx = "null"
  /\ nodes = <<>>
  /\ DOMAIN activeNodes = {}
  /\ timers = {}

IsSounding(request) == request.char # "."

\* C6 as stated: a space is silent, no oscillator is ever created for one
C6_SpaceIsSilent == \A i \in 1..Len(nodes) : nodes[i].char # " "

\* C6 amended: a space is scheduled like every character other than a period:
\* each playTone request for it creates an oscillator (triangle waveform,
\* positive target gain) at the requested offset, and in a sequence the space
\* consumes one timing step.
C6_SpaceSounds ==
  lastCall.op \in {"playTone", "playSequence"} =>
    LET requests == lastCall.requests
        sounding == SelectSeq(requests, IsSounding)
        first == Len(nodes) - Len(sounding)
    IN /\ first >= 0
       /\ \A j \in 1..Len(sounding) :
            /\ nodes[first + j].char = sounding[j].char
            /\ nodes[first + j].timeOffset = sounding[j].timeOffset
            /\ sounding[j].char = " " =>
                 /\ nodes[first + j].type = "triangle"
                 /\ nodes[first + j].finalVol > 0
       /\ \A j \in 1..(Len(requests) - 1) :
            requests[j].char = " " =>
              requests[j + 1].timeOffset = requests[j].timeOffset + 150

\* playSequence(" a", 'w1'): an oscillator for the space, the note one step later
C6_Witness ==
  /\ lastCall.op = "playSequence"
  /\ lastCall.word = <<" ", "a">>
  /\ Len(nodes) = 2
  /\ nodes[1].char = " " /\ nodes[1].type = "triangle" /\ nodes[1].finalVol > 0
  /\ nodes[2].char = "a" /\ nodes[2].timeOffset = 150

\* the ids of the nodes a step creates, in order
NewNodes == [j \in 1..(Len(nodes') - Len(nodes)) |-> Len(nodes) + j]

\* C7: every note playTone schedules with a non-null performance id is
\* appended to that id's list, which is created when the id has no entry; a
\* note scheduled with a null id changes no bookkeeping.
C7_TrackedUnderId ==
  [][lastCall'.op \in {"playTone", "playSequence"} =>
       LET wordId == lastCall'.requests[1].wordId IN
         IF lastCall'.requests = <<>> \/ NewNodes = <<>> THEN activeNodes' = activeNodes
         ELSE IF wordId = <<>> THEN activeNodes' = activeNodes
         ELSE /\ DOMAIN activeNodes' = DOMAIN activeNodes \cup {wordId[1]}
              /\ \A k \in DOMAIN activeNodes \ {wordId[1]} :
                   activeNodes'[k] = activeNodes[k]
              /\ activeNodes'[wordId[1]] =
                   (IF wordId[1] \in DOMAIN activeNodes
                    THEN activeNodes[wordId[1]] ELSE <<>>) \o NewNodes
              /\ \A j \in 1..Len(NewNodes) :
                   [kind |-> "expire", node |-> NewNodes[j], wordId |-> wordId[1],
                    delay |-> nodes'[NewNodes[j]].timeOffset
                              + nodes'[NewNodes[j]].duration + 200] \in timers'
    ]_vars

\* a second note typed under 'typing' joins the first in its list
C7_Witness ==
  /\ lastCall.op = "playTone"
  /\ lastCall.requests[1].wordId = <<"typing">>
  /\ "typing" \in DOMAIN activeNodes
  /\ activeNodes["typing"] = <<1, 2>>

\* C8 as stated: once the self-expiry timer of every note scheduled under an
\* id has fired, and no stop was called, the map holds no entry for the id.
C8_EntryGoneAfterExpiry ==
  \A id \in PerformanceIds :
    ( /\ \E i \in 1..Len(nodes) : nodes[i].wordId = <<id>>
      /\ \A t \in timers : ~(t.kind = "expire" /\ t.wordId = id)
      /\ \A i \in 1..Len(nodes) : nodes[i].wordId = <<id>> => i \notin faded )
    => id \notin DOMAIN activeNodes

\* the notes tracked in the map: scheduled under an id, neither self-expired
\* nor stopped
RECURSIVE SumLen(_, _)
SumLen(map, keys) ==
  IF keys = {} THEN 0
  ELSE LET k == CHOOSE x \in keys : TRUE IN
       Len(map[k]) + SumLen(map, keys \ {k})

ActiveNoteCount == SumLen(activeNodes, DOMAIN activeNodes)

\* C9 as stated: the count sampled when playTone schedules a note is the
\* number of active notes, and with no active note the multiplier is 1.0.
C9_CountIsActiveNotes ==
  [][(lastCall'.op = "playTone" /\ Len(nodes') = Len(nodes) + 1) =>
       /\ nodes'[Len(nodes')].currentActive = ActiveNoteCount
       /\ ActiveNoteCount = 0 => nodes'[Len(nodes')].mixingScale = 100
    ]_vars

\* C10: the mixing multiplier of every scheduled note lies between 0.4 and
\* 1.0, is 0.4 for every count of 12 or more, and scales the requested volume
\* into the target gain.
C10_MixingFloor ==
  \A i \in 1..Len(nodes) :
    /\ nodes[i].mixingScale >= 40
    /\ nodes[i].mixingScale <= 100
    /\ nodes[i].currentActive >= 12 => nodes[i].mixingScale = 40
    /\ nodes[i].currentActive < 12 =>
         nodes[i].mixingScale = 100 - 5 * nodes[i].currentActive
    /\ nodes[i].finalVol = nodes[i].volume * nodes[i].mixingScale
    /\ nodes[i].finalVol >= nodes[i].volume * 40
    /\ nodes[i].finalVol <= nodes[i].volume * 100

\* a note scheduled while 13 entries are in the map gets the floor 0.4
C10_Witness ==
  /\ Len(nodes) = 14
  /\ nodes[14].currentActive = 13
  /\ nodes[14].mixingScale = 40
  /\ lastCall.op = "playTone"
  /\ lastCall.requests[1].wordId = <<"typing">>

\* C11: after stopWord(id) returns the map has no entry for id, and an entry
\* for an id appears only in a step that schedules a new note under that id:
\* the self-expiry timers of stopped notes that fire later do not re-create it.
C11_StoppedEntryStaysAbsent ==
  [][/\ (lastCall'.op = "stopWord" /\ ~lastCall'.threw) =>
          lastCall'.wordId \notin DOMAIN activeNodes'
     /\ \A id \in DOMAIN activeNodes' \ DOMAIN activeNodes :
          /\ lastCall'.op \in {"playTone", "playSequence"}
          /\ \E j \in 1..Len(NewNodes) : nodes'[NewNodes[j]].wordId = <<id>>
    ]_vars

\* the self-expiry timer of a stopped note has fired and its id has no entry
C11_Witness ==
  /\ lastCall.op = "expire"
  /\ lastCall.node \in faded
  /\ lastCall.wordId \notin DOMAIN activeNodes

\* C12 as stated: stopWord on an id with no active note (no entry, or an
\* entry whose notes have all self-expired) does not raise and changes no
\* state of the scheduler.
C12_StopIdleIsNoOp ==
  [][(/\ lastCall'.op = "stopWord"
      /\ \/ lastCall'.wordId \notin DOMAIN activeNodes
         \/ activeNodes[lastCall'.wordId] = <<>>)
       => /\ ~lastCall'.threw
          /\ UNCHANGED engineVars
    ]_vars

\* the nodes of a list
ListSet(list) == {list[i] : i \in 1..Len(list)}

\* the nodes tracked in a map
Tracked(map) == UNION {ListSet(map[k]) : k \in DOMAIN map}

\* C13: stopWord fades exactly the notes tracked under its id at the call and
\* arms hard stops for them only; a list never holds a stopped (faded) note,
\* so notes scheduled under the id afterwards are in a fresh list of their
\* own; a hard-stop timer stops only a note that was faded and untracks
\* nothing; the self-expiry timer of a stopped note changes no list; and a
\* tracked note leaves the map only by its own timer or by a stop of its id.
C13_StopAffectsOnlyTracked ==
  [][/\ (lastCall'.op = "stopWord" /\ ~lastCall'.threw) =>
          LET id == lastCall'.wordId
              hit == IF id \in DOMAIN activeNodes
                     THEN ListSet(activeNodes[id]) ELSE {}
          IN /\ faded' = faded \cup hit
             /\ \A t \in timers' \ timers : t.kind = "hardstop" /\ t.node \in hit
     /\ lastCall'.op # "stopWord" => faded' = faded
     /\ Tracked(activeNodes') \cap faded' = {}
     /\ stopped' \ stopped \subseteq faded
     /\ lastCall'.op = "hardstop" =>
          /\ activeNodes' = activeNodes
          /\ stopped' = stopped \cup {lastCall'.node}
     /\ (lastCall'.op = "expire" /\ lastCall'.node \in faded) =>
          activeNodes' = activeNodes
     /\ \A n \in Tracked(activeNodes) \ Tracked(activeNodes') :
          \/ lastCall'.op = "expire" /\ lastCall'.node = n
          \/ lastCall'.op = "stopWord" /\ <<lastCall'.wordId>> = nodes[n].wordId
    ]_vars

\* a new note is tracked alone under an id whose earlier note was stopped,
\* after the stale timers of the stopped note have fired
C13_Witness ==
  /\ "typing" \in DOMAIN activeNodes
  /\ activeNodes["typing"] = <<2>>
  /\ nodes[1].wordId = <<"typing">>
  /\ 1 \in stopped
  /\ 2 \notin faded
  /\ \A t \in timers : t.node # 1
  /\ lastCall.op \in {"hardstop", "expire"}

\* C14: a stopWord(a) call and the self-expiry of a note of a leave the entry
\* and the list of every other id b as they were, fade and arm hard stops
\* for notes of a only, and stop no oscillator; a hard-stop timer stops only a
\* note that a stop of its own id has faded.
C14_OtherIdsUntouched ==
  [][/\ lastCall'.op \in {"stopWord", "expire"} =>
          LET a == lastCall'.wordId IN
            /\ \A b \in DOMAIN activeNodes \ {a} :
                 /\ b \in DOMAIN activeNodes'
                 /\ activeNodes'[b] = activeNodes[b]
            /\ DOMAIN activeNodes' \subseteq DOMAIN activeNodes
            /\ \A n \in faded' \ faded : nodes[n].wordId = <<a>>
            /\ \A t \in timers' \ timers : nodes[t.node].wordId = <<a>>
            /\ stopped' = stopped
     /\ lastCall'.op = "hardstop" =>
          /\ stopped' \ stopped \subseteq faded
          /\ faded' = faded
          /\ activeNodes' = activeNodes
    ]_vars

\* 'typing' has just been stopped while a note of w1 is tracked and untouched
C14_Witness ==
  /\ lastCall.op = "stopWord"
  /\ lastCall.wordId = "typing"
  /\ \E n \in faded : nodes[n].wordId = <<"typing">>
  /\ "w1" \in DOMAIN activeNodes
  /\ activeNodes["w1"] # <<>>
  /\ \A n \in ListSet(activeNodes["w1"]) : n \notin faded /\ n \notin stopped

\* C15 as stated: while the context is torn down (the refs are null), a
\* stopWord call returns without raising and schedules nothing, also for an
\* id that still has an entry from before the teardown.
C15_StopFailsSoft ==
  [][(audioCtx = "null" /\ lastCall'.op = "stopWord") =>
       /\ ~lastCall'.threw
       /\ faded' = faded
       /\ timers' = timers
    ]_vars

\* C16 as stated: every note is scheduled on a context that is open when
\* playTone runs, never on one that stopAll has closed, also when the call
\* comes before the callback of close() has run.
C16_NeverOnClosedContext ==
  \A i \in 1..Len(nodes) : nodes[i].ctx = "running"

\* the place of a letter in the alphabet, from 0, whatever its case
LetterIndex(char) ==
  CHOOSE i \in 0..25 : Alphabet[i + 1] = char \/ UpperAlphabet[i + 1] = char

\* the octave a note sounds at: the override, 5 without one
OctaveOf(node) ==
  IF node.octaveOverride = <<>> THEN 5 ELSE node.octaveOverride[1]

\* C17: the frequency of a letter is SCALE[i mod 16] * 2^floor(i/16) * (2 if
\* uppercase, else 1) * 2^(octave - 5), i the index 0..25 of the letter and a
\* null override counting as octave 5: 'a' at octave 5 is the first table
\* entry, 'A' the double, octave 6 the double and octave 4 the half of
\* octave 5.  Frequencies are in 1/3200 Hz, which turns 2^(octave - 5) into
\* 2^octave.
C17_LetterFrequency ==
  \A n \in 1..Len(nodes) :
    LET node == nodes[n]
        char == node.char
    IN char \in LowerCase \cup UpperCase =>
         LET i == LetterIndex(char)
             octave5 == SCALE[(i % 16) + 1] * Pow2(i \div 16)
                          * (IF char \in UpperCase THEN 2 ELSE 1) * 32
         IN /\ node.freq = SCALE[(i % 16) + 1] * Pow2(i \div 16)
                             * (IF char \in UpperCase THEN 2 ELSE 1)
                             * Pow2(OctaveOf(node))
            /\ (char = "a" /\ OctaveOf(node) = 5) => node.freq = 13081 * 32
            /\ (char = "A" /\ OctaveOf(node) = 5) => node.freq = 2 * 13081 * 32
            /\ OctaveOf(node) = 5 => node.freq = octave5
            /\ OctaveOf(node) = 6 => node.freq = 2 * octave5
            /\ OctaveOf(node) = 4 => 2 * node.freq = octave5

\* an uppercase letter past the first wrap of the table, one octave down:
\* 'Z' at octave 4 sounds at SCALE[9] * 2 * 2 / 2
C17_Witness ==
  /\ lastCall.op = "playTone"
  /\ lastCall.requests[1].char = "Z"
  /\ lastCall.requests[1].octaveOverride = <<4>>
  /\ Len(nodes) >= 1
  /\ nodes[Len(nodes)].char = "Z"
  /\ nodes[Len(nodes)].freq = 46616 * 2 * 32

\* C18 as stated: a character outside [A-Za-z0-9] gets the triangle waveform
\* and a target gain of 0.4 times the one an alphanumeric character gets for
\* the same requested volume and count, which is volume * mixingScale; an
\* alphanumeric character gets the sine waveform and the full target gain.
C18_SpecialIsSofter ==
  \A n \in 1..Len(nodes) :
    LET node == nodes[n]
        full == node.volume * MixingScale(node.currentActive)
    IN IF IsAlphaNumeric(node.char)
       THEN node.type = "sine" /\ node.finalVol = full
       ELSE node.type = "triangle" /\ 10 * node.finalVol = 4 * full

\* a list without the node n
Without(list, n) == LET Other(x) == x # n IN SelectSeq(list, Other)

\* C19: every note scheduled under an id gets a timer of its own, armed with
\* the delay offset + duration + 200 ms; the timer stays armed until it fires,
\* whatever stop calls come in between; and when it fires, the lists lose
\* that one note and nothing else.
C19_SelfExpiry ==
  [][/\ \A j \in 1..Len(NewNodes) :
          LET n == NewNodes[j] IN
            Truthy(nodes'[n].wordId) =>
              [kind |-> "expire", node |-> n, wordId |-> nodes'[n].wordId[1],
               delay |-> nodes'[n].timeOffset + nodes'[n].duration + 200]
                \in timers'
     /\ \A t \in timers' :
          t.kind = "expire" =>
            /\ t.delay = nodes'[t.node].timeOffset + nodes'[t.node].duration + 200
            /\ <<t.wordId>> = nodes'[t.node].wordId
     /\ \A t \in timers \ timers' :
          t.kind = "expire" => lastCall'.op = "expire" /\ lastCall'.node = t.node
     /\ lastCall'.op = "expire" =>
          /\ DOMAIN activeNodes' = DOMAIN activeNodes
          /\ \A k \in DOMAIN activeNodes :
               activeNodes'[k] = Without(activeNodes[k], lastCall'.node)
          /\ \A k \in DOMAIN activeNodes :
               lastCall'.node \in ListSet(activeNodes[k]) => k = lastCall'.wordId
    ]_vars

\* the timer of the first of two notes of one id has fired without any stop:
\* the second note, scheduled one step later, is still in the list
C19_Witness ==
  /\ lastCall.op = "expire"
  /\ lastCall.node = 1
  /\ faded = {}
  /\ "w1" \in DOMAIN activeNodes
  /\ activeNodes["w1"] = <<2>>
  /\ nodes[2].timeOffset = 150
  /\ \E t \in timers : t.kind = "expire" /\ t.node = 2 /\ t.delay = 750

\* C20: for the pitch index n of every scheduled character (a letter its
\* place 0..25, any other character its code point) the table entry is
\* SCALE[n mod 16] and the wrap multiplier is 2^(floor(n/16) mod 4): one of
\* 1, 2, 4, 8, and 1 when floor(n/16) is a multiple of 4.  The frequency is
\* the entry times the multiplier, the case factor and the octave factor.
C20_WrapFolded ==
  \A m \in 1..Len(nodes) :
    LET node == nodes[m]
        n == node.safeIndex
        wraps == n \div 16
    IN /\ n >= 0
       /\ node.char \in LowerCase \cup UpperCase => n = LetterIndex(node.char)
       /\ node.char = " " => n = 32
       /\ node.char = "3" => n = 51
       /\ node.char = "@" => n = 64
       /\ node.char = "~" => n = 126
       /\ node.noteIndex = n % 16
       /\ node.wrapMultiplier = Pow2(wraps % 4)
       /\ node.wrapMultiplier \in {1, 2, 4, 8}
       /\ wraps % 4 = 0 => node.wrapMultiplier = 1
       /\ node.freq = SCALE[(n % 16) + 1] * node.wrapMultiplier
                        * (IF node.char \in UpperCase THEN 2 ELSE 1)
                        * Pow2(OctaveOf(node))

\* '@' has code point 64: four wraps of the table fold to none, and it sounds
\* at the first table entry
C20_Witness ==
  /\ lastCall.op = "playTone"
  /\ lastCall.requests[1].char = "@"
  /\ lastCall.requests[1].octaveOverride = <<>>
  /\ Len(nodes) >= 1
  /\ nodes[Len(nodes)].char = "@"
  /\ nodes[Len(nodes)].wrapMultiplier = 1
  /\ nodes[Len(nodes)].freq = 13081 * 32

\* C21: a stopWord(id, fade) call ramps the gain of every note tracked under
\* id to 0 by 0.2 s after the call, whatever the fade, and arms for each of
\* them a hard stop fade * 1000 + 200 ms after the call, which is never
\* earlier than the end of the ramp.
C21_RampThenHardStop ==
  [][(lastCall'.op = "stopWord" /\ ~lastCall'.threw) =>
       LET id == lastCall'.wordId
           hit == IF id \in DOMAIN activeNodes
                  THEN ListSet(activeNodes[id]) ELSE {}
       IN /\ hit \subseteq faded'
          /\ \A n \in hit :
               \E fade \in StopFades :
                 [kind |-> "hardstop", node |-> n, wordId |-> "", ramp |-> 200,
                  delay |-> fade + 200] \in timers'
          /\ \A t \in timers' \ timers :
               /\ t.kind = "hardstop"
               /\ t.ramp = 200
               /\ t.delay >= t.ramp
    ]_vars

\* a stop with no fade has armed a hard stop that falls on the end of the ramp
C21_Witness ==
  /\ lastCall.op = "stopWord"
  /\ \E t \in timers :
       t.kind = "hardstop" /\ t.node \in faded /\ t.delay = 200 /\ t.ramp = 200

\* the bus exists and the last call on the engine was op
BusAfter(op) == masterGain # "null" /\ lastCall.op = op

\* C22: with a bus present, fadeOut(d) holds the current bus gain and ramps
\* it to 0 within d, resetVolume sets it to 0 and ramps it linearly to 1
\* within 50 ms, each replacing whatever ramp was pending; so while the last
\* call is resetVolume the gain is on the ramp to 1 and settles at 1, and
\* while it is fadeOut the gain is on a ramp to 0 and settles at 0.
C22_BusSettles ==
  /\ [](BusAfter("fadeOut") =>
          /\ bus.target = 0
          /\ bus.ramp <= lastCall.duration
          /\ bus.ramp = 0 => bus.value = 0)
  /\ [](BusAfter("resetVolume") =>
          /\ bus.target = 1000
          /\ bus.ramp <= 50
          /\ bus.value * 50 = 1000 * (50 - bus.ramp))
  /\ [][(masterGain' # "null" /\ lastCall'.op = "fadeOut"
           /\ bus'.ramp = lastCall'.duration) => bus'.value = bus.value]_vars
  /\ (BusAfter("resetVolume") /\ audioCtx = "running")
       ~> (bus = Steady(1000) \/ ~BusAfter("resetVolume"))
  /\ (BusAfter("fadeOut") /\ audioCtx = "running")
       ~> (bus = Steady(0) \/ ~BusAfter("fadeOut"))

\* the last call was resetVolume and its ramp has ended: the bus is at 1
C22_Witness ==
  /\ BusAfter("resetVolume")
  /\ bus = Steady(1000)
  /\ audioCtx = "running"

\* no two neighbours of a string are digits
NoAdjacentDigits(str) ==
  \A i \in 1..(Len(str) - 1) : ~(IsDigit(str[i]) /\ IsDigit(str[i + 1]))

\* C23: after any sequence of desktop key events the input holds no two
\* adjacent digits, and a digit typed after a digit takes its place.
C23_NoAdjacentDigits ==
  /\ [](NoAdjacentDigits(input))
  /\ [][(/\ lastCall'.op = "keyDown"
          /\ IsDigit(lastCall'.key)
          /\ input # <<>>
          /\ IsDigit(input[Len(input)]))
         => input' = [input EXCEPT ![Len(input)] = lastCall'.key]]_vars

\* a digit typed after a letter and a digit has replaced the digit
C23_Witness ==
  /\ lastCall.op = "keyDown"
  /\ lastCall.key = "6"
  /\ input = <<"a", "6">>
  /\ Len(nodes) >= 1
  /\ nodes[Len(nodes)].char = "a"

\* C24: the pipe never enters a word: no committed text contains "|", so
\* joining the texts of a non-empty word list with "|" and splitting the
\* result on "|" gives the same list of texts back.
C24_PipeNeverEntersWord ==
  /\ \A i \in 1..Len(words) :
       \A k \in 1..Len(words[i].text) : words[i].text[k] # "|"
  /\ words # <<>> => split(join(TextsOf(words))) = TextsOf(words)

\* the base volume the submission is said to play at, 0.2 in thousandths
submitVolume == 200

\* C25: a submission of a non-blank input plays the text once as a sequence at
\* volume 0.2 with no performance id, adds the word and leaves the bookkeeping
\* map as it was; a submission of a blank input adds no word and plays nothing.
C25_SubmitPlaysUntracked ==
  [][lastCall'.op = "submit" =>
       IF ~IsBlank(input)
       THEN /\ lastCall'.requests =
                 playSequence(Engine, input, <<>>, submitVolume).requests
            /\ activeNodes' = activeNodes
            /\ TextsOf(words') = Append(TextsOf(words), input)
       ELSE /\ lastCall'.requests = <<>>
            /\ nodes' = nodes
            /\ words' = words]_vars

\* C30: all words of the word list have pairwise distinct ids, after any
\* sequence of submissions and imports.
C30_IdsDistinct ==
  \A i, j \in 1..Len(words) : i # j => words[i].id # words[j].id

\* the word with the id, ids being distinct
WordOf(id) == CHOOSE i \in 1..Len(words) : words[i].id = id

\* C26: a tap or a random trigger on a word whose most recently started
\* performance still has its end-of-performance timer pending starts no
\* playback, and a playing flag that is set is eventually cleared.
C26_NoRetrigger ==
  /\ [][(lastCall'.op \in {"tap", "random"}
          /\ words[WordOf(lastCall'.id)].ends # <<>>) => ~lastCall'.started]_vars
  /\ \A i \in 1..2 :
       (Len(words) >= i /\ words[i].isPlaying)
         ~> (Len(words) < i \/ ~words[i].isPlaying)

\* C27: a planet click during an orchestra changes nothing, a random trigger
\* during an orchestra starts no playback, and a set orchestra flag is
\* eventually reset.
C27_OrchestraEnds ==
  /\ [][(lastCall'.op = "planetClick" /\ isPlanetOrchestra)
          => (lastCall'.ignored /\ UNCHANGED <<engineVars, appVars>>)]_vars
  /\ [][(lastCall'.op = "random" /\ isPlanetOrchestra)
          => (~lastCall'.started /\ nodes' = nodes)]_vars
  /\ isPlanetOrchestra ~> ~isPlanetOrchestra

\* the words of the list that come before the i-th in the order of length,
\* then id, and the sum of their estimated durations
ComesBefore(list, i) ==
  {j \in 1..Len(list) :
     \/ Len(list[j].text) < Len(list[i].text)
     \/ Len(list[j].text) = Len(list[i].text) /\ list[j].id < list[i].id}

RECURSIVE SumDurations(_, _)
SumDurations(list, indices) ==
  IF indices = {} THEN 0
  ELSE LET j == CHOOSE j \in indices : TRUE IN
       longestLineLength(list[j].text) * 150 + 100
         + SumDurations(list, indices \ {j})

\* the positions of the words a step has force-triggered
ForceTriggered ==
  {i \in 1..Len(words) : words'[i].forceTrigger # words[i].forceTrigger}

\* C28: the orchestra sets one trigger per word present at the click, due after
\* the estimated durations of the words that come before it by length, then id;
\* a trigger runs at its time, triggers the one word with its id and plays it,
\* leaves the list as it is, and plays nothing when the word has been removed.
C28_OrchestraOrder ==
  /\ [][lastCall'.op = "orchestraStart" =>
          \E s \in 1..Len(appTimers) :
            /\ appTimers[s].kind = "start"
            /\ LET closure == appTimers[s].closure
                   forces == {k \in 1..Len(appTimers') : appTimers'[k].kind = "force"}
               IN /\ Cardinality(forces) = Len(closure)
                  /\ \A i \in 1..Len(closure) :
                       \E k \in forces :
                         /\ appTimers'[k].id = closure[i].id
                         /\ appTimers'[k].due =
                              now' + SumDurations(closure, ComesBefore(closure, i))]_vars
  /\ [][lastCall'.op = "force" =>
          /\ \E k \in 1..Len(appTimers) :
               /\ appTimers' = RemoveAt(appTimers, k)
               /\ appTimers[k].kind = "force"
               /\ appTimers[k].id = lastCall'.id
               /\ appTimers[k].due = now'
          /\ Len(words') = Len(words)
          /\ \A i \in 1..Len(words) :
               /\ words'[i].text = words[i].text
               /\ words'[i].id = words[i].id
               /\ words[i].id = lastCall'.id <=> i \in ForceTriggered
               /\ i \in ForceTriggered =>
                    /\ words'[i].forceTrigger = now'
                    /\ words'[i].isPlaying
                    /\ lastCall'.requests =
                         playSequence(Engine, words[i].text, <<WordKey(words[i].id)>>,
                                      wordVolume).requests
          /\ Cardinality(ForceTriggered) <= 1
          /\ ForceTriggered = {} => lastCall'.requests = <<>> /\ nodes' = nodes]_vars

\* the ids the last call removed from the list
RemovedIds ==
  IF lastCall.op = "removeWord" /\ ~lastCall.threw THEN {lastCall.id}
  ELSE IF lastCall.op = "planetRightClick" /\ ~lastCall.threw THEN lastCall.ids
  ELSE {}

\* C29: a removal takes the word out of the list, fades and hard-stops every
\* oscillator tracked under its id and deletes the id's entry of the
\* bookkeeping map; from then on no step gives the map an entry for a removed
\* id again, that is, no note is scheduled under it, whatever timers run.
C29_RemovedStaysSilent ==
  [][/\ \A id \in RemovedIds' :
          LET hit == IF WordKey(id) \in DOMAIN activeNodes
                     THEN ListSet(activeNodes[WordKey(id)]) ELSE {}
          IN /\ id \in removed'
             /\ \A i \in 1..Len(words') : words'[i].id # id
             /\ hit \subseteq faded'
             /\ \A n \in hit :
                  [kind |-> "hardstop", node |-> n, wordId |-> "", ramp |-> stopRamp,
                   delay |-> stopDelay(removeFade)] \in timers'
     /\ \A id \in removed' : WordKey(id) \notin DOMAIN activeNodes']_vars

=========================================================================
